---- MODULE Spec2Model ----
(***************************************************************************)
(* CenterColumnStudyReactor.__init__ as a state machine: one action per    *)
(* method called from the constructor, in the order the constructor calls  *)
(* them.                                                                   *)
(*                                                                         *)
(* Lengths are integers in units of 0.05 m, so that every input given in   *)
(* tenths of a metre and every height scaled by 2.5 stays exact.  Angles   *)
(* are integers in tenths of a degree.                                     *)
(*                                                                         *)
(* A solid is the set of points it occupies on the radial axis of the      *)
(* equatorial plane (z = 0), kept as a set of half-open intervals          *)
(* <<lo, hi>>; the kernel's intersect and cut are set intersection and set *)
(* difference on those point sets.                                         *)
(***************************************************************************)
EXTENDS Integers, Sequences, FiniteSets, TLC

VARIABLES
    self,                  \* the reactor object's attributes (name -> value)
    shapes_or_components,  \* the local list of __init__, holding references
    pc,                    \* the statement of __init__ about to run
    raised,                \* the exception that left __init__, if any
    warnings_log,          \* warnings emitted so far
    kernel_log             \* kernel constructions and boolean operations so far

vars == <<self, shapes_or_components, pc, raised, warnings_log, kernel_log>>

\* ---------------------------------------------------------------- units

\* n tenths of a metre, in length units
Tenths(n) == 2 * n

\* n metres, in length units
Metres(n) == 20 * n

\* n degrees, in angle units
Deg(n) == 10 * n

None == <<>>

NoError == "none"

\* ------------------------------------------------------- bounded inputs

\* shield thicknesses (mid and upper) range over 0 .. MaxShieldMetres metres
MaxShieldMetres == 2

ShieldThicknesses == {Metres(k) : k \in 0..MaxShieldMetres}

InnerBoreThicknesses == {0, Metres(1)}

TfLegThicknesses == {Metres(1)}

FirstwallThicknesses == {0, Tenths(1)}

DivertorThicknesses == {Metres(2), Metres(3), Metres(200)}

InnerPlasmaGapThicknesses == {0, Tenths(5)}

PlasmaThicknesses == {0, Metres(1)}

OuterPlasmaGapThicknesses == {0, Tenths(5)}

ArcThicknesses == {Metres(2)}

ApexRadii == {Tenths(25), Tenths(36), Tenths(40), Tenths(46), Tenths(47)}

ApexHeights == {Metres(3)}

VerticalGapThicknesses == {Tenths(3)}

RotationAngles == {Deg(180), Deg(360) - 1, Deg(360)}

\* ------------------------------------------------------------- helpers

Max(a, b) == IF a >= b THEN a ELSE b

Min(a, b) == IF a <= b THEN a ELSE b

\* attribute assignment: the attributes of new are set on (or added to) s
SetAttrs(s, new) == new @@ s

\* ------------------------------------------------------------ __init__

\* lines 62-82: the object after the parameters are stored
InitSelf(p) ==
    SetAttrs([shapes_and_components |-> <<>>],
             p @@ [major_radius |-> None,
                   minor_radius |-> None,
                   elongation |-> None,
                   triangularity |-> None])

Init ==
    /\ \E bore \in InnerBoreThicknesses, tf \in TfLegThicknesses,
          mid \in ShieldThicknesses, upper \in ShieldThicknesses,
          fw \in FirstwallThicknesses, div \in DivertorThicknesses,
          ig \in InnerPlasmaGapThicknesses, pl \in PlasmaThicknesses,
          og \in OuterPlasmaGapThicknesses, arc \in ArcThicknesses,
          hx \in ApexRadii, hz \in ApexHeights,
          gv \in VerticalGapThicknesses, rot \in RotationAngles :
        self = InitSelf(
            [inner_bore_radial_thickness |-> bore,
             inboard_tf_leg_radial_thickness |-> tf,
             center_column_shield_radial_thickness_mid |-> mid,
             center_column_shield_radial_thickness_upper |-> upper,
             inboard_firstwall_radial_thickness |-> fw,
             divertor_radial_thickness |-> div,
             inner_plasma_gap_radial_thickness |-> ig,
             plasma_radial_thickness |-> pl,
             outer_plasma_gap_radial_thickness |-> og,
             plasma_high_point |-> <<hx, hz>>,
             plasma_gap_vertical_thickness |-> gv,
             center_column_arc_vertical_thickness |-> arc,
             rotation_angle |-> rot])
    /\ shapes_or_components = <<>>
    /\ pc = "rotation_angle_check"
    /\ raised = NoError
    /\ warnings_log = <<>>
    /\ kernel_log = <<>>

KernelError == "KernelError"

\* the statements of __init__ with make_plasma called first of the builders
InitCalls_plasma_first ==
    <<"rotation_angle_check", "make_radial_build", "make_vertical_build",
      "make_plasma", "make_inboard_tf_coils", "make_center_column_shield",
      "make_inboard_firstwall", "make_outboard_blanket",
      "make_divertor", "make_component_cuts", "assign", "done">>

\* lines 86-97: the statements of __init__ after the attributes are set
InitCalls ==
    <<"rotation_angle_check", "make_radial_build", "make_vertical_build",
      "make_inboard_tf_coils", "make_center_column_shield",
      "make_inboard_firstwall", "make_plasma", "make_outboard_blanket",
      "make_divertor", "make_component_cuts", "assign", "done">>

\* the statement that follows statement here
Following(here) ==
    LET i == CHOOSE k \in 1..Len(InitCalls) : InitCalls[k] = here
    IN  InitCalls[i + 1]

\* the calls wrapped in a handler that swallows the exception and goes on
\* to line 97
OnException_swallowed(here) == "assign"

\* where control goes when a statement of __init__ raises: out of __init__
OnException(here) == "raised"

\* ------------------------------------------------- rotation_angle_check

FullSweepWarning == "360 degree rotation may result in a Standard_ConstructionError or AttributeError"

\* the warning emitted for every angle above 359 degrees
rotation_angle_warnings_above_359(s) ==
    IF s.rotation_angle > Deg(359) THEN <<FullSweepWarning>> ELSE <<>>

\* the warnings rotation_angle_check emits for object s
rotation_angle_warnings(s) ==
    IF s.rotation_angle = Deg(360) THEN <<FullSweepWarning>> ELSE <<>>

rotation_angle_check ==
    /\ pc = "rotation_angle_check"
    /\ warnings_log' = warnings_log \o rotation_angle_warnings(self)
    /\ pc' = Following("rotation_angle_check")
    /\ UNCHANGED <<self, shapes_or_components, raised, kernel_log>>

\* ---------------------------------------------------- make_radial_build

\* the fixed oversize of the blanket zones (100 m)
BlanketOversize == Metres(100)

radial_build(s) ==
    LET inner_bore_start == 0
        inner_bore_end == inner_bore_start + s.inner_bore_radial_thickness
        tf_start == inner_bore_end
        tf_end == tf_start + s.inboard_tf_leg_radial_thickness
        shield_start == tf_end
        shield_end_upper == shield_start + s.center_column_shield_radial_thickness_upper
        shield_end_mid == shield_start + s.center_column_shield_radial_thickness_mid
        firstwall_start == shield_end_upper
        firstwall_end == firstwall_start + s.inboard_firstwall_radial_thickness
        divertor_start == firstwall_end
        divertor_end == divertor_start + s.divertor_radial_thickness
        inner_gap_start == shield_end_mid + s.inboard_firstwall_radial_thickness
        inner_gap_end == inner_gap_start + s.inner_plasma_gap_radial_thickness
        plasma_start == inner_gap_end
        plasma_end == plasma_start + s.plasma_radial_thickness
        outer_gap_start == plasma_end
        outer_gap_end == outer_gap_start + s.outer_plasma_gap_radial_thickness
        blanket_start == outer_gap_end
        blanket_end == blanket_start + BlanketOversize
    IN  SetAttrs(s,
            [_inner_bore_start_radius |-> inner_bore_start,
             _inner_bore_end_radius |-> inner_bore_end,
             _inboard_tf_coils_start_radius |-> tf_start,
             _inboard_tf_coils_end_radius |-> tf_end,
             _center_column_shield_start_radius |-> shield_start,
             _center_column_shield_end_radius_upper |-> shield_end_upper,
             _center_column_shield_end_radius_mid |-> shield_end_mid,
             _inboard_firstwall_start_radius |-> firstwall_start,
             _inboard_firstwall_end_radius |-> firstwall_end,
             _divertor_start_radius |-> divertor_start,
             _divertor_end_radius |-> divertor_end,
             _inner_plasma_gap_start_radius |-> inner_gap_start,
             _inner_plasma_gap_end_radius |-> inner_gap_end,
             _plasma_start_radius |-> plasma_start,
             _plasma_end_radius |-> plasma_end,
             _outer_plasma_gap_start_radius |-> outer_gap_start,
             _outer_plasma_gap_end_radius |-> outer_gap_end,
             _outboard_blanket_start_radius |-> blanket_start,
             _outboard_blanket_end_radius |-> blanket_end])

\* the attributes names of s moved outwards by d
ShiftAttrs(s, names, d) ==
    [n \in DOMAIN s |-> IF n \in names THEN s[n] + d ELSE s[n]]

PlasmaSideRadii ==
    {"_inner_plasma_gap_start_radius", "_inner_plasma_gap_end_radius",
     "_plasma_start_radius", "_plasma_end_radius",
     "_outer_plasma_gap_start_radius", "_outer_plasma_gap_end_radius",
     "_outboard_blanket_start_radius", "_outboard_blanket_end_radius"}

\* make_radial_build with line 133 leaving the firstwall thickness out
make_radial_build_gap_without_firstwall ==
    /\ pc = "make_radial_build"
    /\ self' = ShiftAttrs(radial_build(self), PlasmaSideRadii,
                          0 - self.inboard_firstwall_radial_thickness)
    /\ pc' = Following("make_radial_build")
    /\ UNCHANGED <<shapes_or_components, raised, warnings_log, kernel_log>>

\* make_radial_build with line 129 starting the divertor where the
\* firstwall starts
make_radial_build_divertor_at_firstwall_start ==
    /\ pc = "make_radial_build"
    /\ self' = ShiftAttrs(radial_build(self),
                          {"_divertor_start_radius", "_divertor_end_radius"},
                          0 - self.inboard_firstwall_radial_thickness)
    /\ pc' = Following("make_radial_build")
    /\ UNCHANGED <<shapes_or_components, raised, warnings_log, kernel_log>>

make_radial_build ==
    /\ pc = "make_radial_build"
    /\ self' = radial_build(self)
    /\ pc' = Following("make_radial_build")
    /\ UNCHANGED <<shapes_or_components, raised, warnings_log, kernel_log>>

\* -------------------------------------------------- make_vertical_build

vertical_build(s) ==
    LET plasma_start_height == 0
        plasma_end_height == plasma_start_height + s.plasma_high_point[2]
        gap_start_height == plasma_end_height
        gap_end_height == gap_start_height + s.plasma_gap_vertical_thickness
        blanket_start_height == gap_end_height
        blanket_end_height == blanket_start_height + BlanketOversize
    IN  SetAttrs(s,
            [_plasma_start_height |-> plasma_start_height,
             _plasma_end_height |-> plasma_end_height,
             _plasma_to_blanket_gap_start_height |-> gap_start_height,
             _plasma_to_blanket_gap_end_height |-> gap_end_height,
             _blanket_start_height |-> blanket_start_height,
             _blanket_end_height |-> blanket_end_height,
             _center_column_shield_end_height |-> blanket_end_height,
             _inboard_firstwall_end_height |-> blanket_end_height])

TooSmall == "ValueError: The first value in plasma high_point is too small"

TooLarge == "ValueError: The first value in plasma high_point is too large"

\* lines 170-179: the exception the apex check raises for object s, if any
high_point_check(s) ==
    IF s.plasma_high_point[1] < s._plasma_start_radius THEN TooSmall
    ELSE IF s.plasma_high_point[1] > s._plasma_end_radius THEN TooLarge
    ELSE NoError

\* make_vertical_build with only the first test (lines 170-174)
make_vertical_build_lower_test_only ==
    /\ pc = "make_vertical_build"
    /\ self' = vertical_build(self)
    /\ raised' = IF self'.plasma_high_point[1] < self'._plasma_start_radius
                 THEN TooSmall ELSE NoError
    /\ pc' = IF raised' = NoError THEN Following("make_vertical_build")
             ELSE OnException("make_vertical_build")
    /\ UNCHANGED <<shapes_or_components, warnings_log, kernel_log>>

\* make_vertical_build with <= and >= in place of < and >
make_vertical_build_exclusive ==
    /\ pc = "make_vertical_build"
    /\ self' = vertical_build(self)
    /\ raised' = IF self'.plasma_high_point[1] <= self'._plasma_start_radius
                 THEN TooSmall
                 ELSE IF self'.plasma_high_point[1] >= self'._plasma_end_radius
                 THEN TooLarge ELSE NoError
    /\ pc' = IF raised' = NoError THEN Following("make_vertical_build")
             ELSE OnException("make_vertical_build")
    /\ UNCHANGED <<shapes_or_components, warnings_log, kernel_log>>

make_vertical_build ==
    /\ pc = "make_vertical_build"
    /\ self' = vertical_build(self)
    /\ raised' = high_point_check(self')
    /\ pc' = IF raised' = NoError THEN Following("make_vertical_build")
             ELSE OnException("make_vertical_build")
    /\ UNCHANGED <<shapes_or_components, warnings_log, kernel_log>>

\* ------------------------------------------------------------- solids

\* the points lo, lo+1, ..., hi-1 as a solid; empty unless lo < hi
Interval(lo, hi) == IF lo < hi THEN {<<lo, hi>>} ELSE {}

\* the points a solid occupies
Points(A) == UNION {a[1]..(a[2] - 1) : a \in A}

\* kernel intersect: the points of both A and B
Intersect(A, B) ==
    UNION {Interval(Max(a[1], b[1]), Min(a[2], b[2])) : <<a, b>> \in A \X B}

\* interval a without the points of interval b
CutInterval(a, b) ==
    Interval(a[1], Min(a[2], b[1])) \cup Interval(Max(a[1], b[2]), a[2])

RECURSIVE Cut(_, _)
\* kernel cut: the points of A that are not in B
Cut(A, B) ==
    IF B = {} THEN A
    ELSE LET b == CHOOSE x \in B : TRUE
         IN  Cut(UNION {CutInterval(a, b) : a \in A}, B \ {b})

\* ------------------------------------------------------ kernel shapes
\* Every constructor takes the keyword arguments it is called with (a
\* record) and returns the built shape.  An argument naming an attribute of
\* the reactor (a reference to another shape) is resolved in s.

CenterColumnShieldCylinder(s, args) ==
    LET base == Interval(args.inner_radius, args.outer_radius)
    IN  [kind |-> "CenterColumnShieldCylinder",
         args |-> args,
         solid |-> IF "intersect" \in DOMAIN args
                   THEN Intersect(base, s[args.intersect].solid)
                   ELSE base]

CenterColumnShieldFlatTopHyperbola(s, args) ==
    [kind |-> "CenterColumnShieldFlatTopHyperbola",
     args |-> args,
     solid |-> Interval(args.inner_radius, args.mid_radius)]

InboardFirstwallFCCS(s, args) ==
    LET shield == s[args.central_column_shield]
    IN  [kind |-> "InboardFirstwallFCCS",
         args |-> args,
         solid |-> Interval(shield.args.mid_radius,
                            shield.args.mid_radius + args.thickness)]

PlasmaFromPoints(s, args) ==
    [kind |-> "PlasmaFromPoints",
     args |-> args,
     solid |-> Interval(args.inner_equatorial_x_point,
                        args.outer_equatorial_x_point),
     major_radius |-> <<"major_radius", args.inner_equatorial_x_point,
                        args.outer_equatorial_x_point>>,
     minor_radius |-> <<"minor_radius", args.inner_equatorial_x_point,
                        args.outer_equatorial_x_point>>,
     elongation |-> <<"elongation", args.inner_equatorial_x_point,
                      args.outer_equatorial_x_point, args.high_point>>,
     triangularity |-> <<"triangularity", args.inner_equatorial_x_point,
                         args.outer_equatorial_x_point, args.high_point>>]

\* the blanket follows the plasma at the offsets given for the angles
\* -180, -90, 0, 90, 180; on the equatorial plane only the outboard side
\* (angle 0, the third offset) lies between start_angle and stop_angle
BlanketFP(s, args) ==
    LET plasma == s[args.plasma]
        inner == plasma.args.outer_equatorial_x_point + args.offset_from_plasma[3]
        raw == Interval(inner, inner + args.thickness)
    IN  [kind |-> "BlanketFP",
         args |-> args,
         solid |-> IF "cut" \in DOMAIN args
                   THEN Cut(raw, args.cut.solid)
                   ELSE raw]

\* ------------------------------------------------------- build steps

\* A method that calls the kernel: calls are the kernel calls it makes, in
\* order; when all succeed the object becomes after and appended joins the
\* list; when call i fails the exception leaves the method at once.
KernelStep(here, calls, after, appended) ==
    /\ pc = here
    /\ \/ /\ kernel_log' = kernel_log \o calls
          /\ self' = after
          /\ shapes_or_components' = shapes_or_components \o appended
          /\ pc' = Following(here)
          /\ UNCHANGED raised
       \/ \E i \in 1..Len(calls) :
          /\ kernel_log' = kernel_log \o SubSeq(calls, 1, i)
          /\ raised' = KernelError
          /\ pc' = OnException(here)
          /\ UNCHANGED <<self, shapes_or_components>>
    /\ UNCHANGED warnings_log

Construct(kind, name) == <<"construct", kind, name>>

\* ------------------------------------------------ make_inboard_tf_coils

inboard_tf_coils(s) ==
    CenterColumnShieldCylinder(s,
        [height |-> s._blanket_end_height * 2,
         inner_radius |-> s._inboard_tf_coils_start_radius,
         outer_radius |-> s._inboard_tf_coils_end_radius,
         rotation_angle |-> s.rotation_angle,
         stp_filename |-> "inboard_tf_coils.stp",
         stl_filename |-> "inboard_tf_coils.stl",
         name |-> "inboard_tf_coils",
         material_tag |-> "inboard_tf_coils_mat"])

make_inboard_tf_coils ==
    KernelStep("make_inboard_tf_coils",
               <<Construct("CenterColumnShieldCylinder", "_inboard_tf_coils")>>,
               SetAttrs(self, [_inboard_tf_coils |-> inboard_tf_coils(self)]),
               <<"_inboard_tf_coils">>)

\* -------------------------------------------- make_center_column_shield

center_column_shield(s) ==
    CenterColumnShieldFlatTopHyperbola(s,
        [height |-> s._center_column_shield_end_height * 2,
         arc_height |-> s.center_column_arc_vertical_thickness,
         inner_radius |-> s._center_column_shield_start_radius,
         mid_radius |-> s._center_column_shield_end_radius_mid,
         outer_radius |-> s._center_column_shield_end_radius_upper,
         rotation_angle |-> s.rotation_angle])

make_center_column_shield ==
    KernelStep("make_center_column_shield",
               <<Construct("CenterColumnShieldFlatTopHyperbola", "_center_column_shield")>>,
               SetAttrs(self, [_center_column_shield |-> center_column_shield(self)]),
               <<"_center_column_shield">>)

\* ----------------------------------------------- make_inboard_firstwall

inboard_firstwall(s) ==
    InboardFirstwallFCCS(s,
        [central_column_shield |-> "_center_column_shield",
         thickness |-> s.inboard_firstwall_radial_thickness,
         rotation_angle |-> s.rotation_angle])

make_inboard_firstwall ==
    KernelStep("make_inboard_firstwall",
               <<Construct("InboardFirstwallFCCS", "_inboard_firstwall")>>,
               SetAttrs(self, [_inboard_firstwall |-> inboard_firstwall(self)]),
               <<"_inboard_firstwall">>)

\* ---------------------------------------------------------- make_plasma

plasma(s) ==
    PlasmaFromPoints(s,
        [outer_equatorial_x_point |-> s._plasma_end_radius,
         inner_equatorial_x_point |-> s._plasma_start_radius,
         high_point |-> s.plasma_high_point,
         rotation_angle |-> s.rotation_angle])

\* lines 217-227: the object once the plasma is built and read back
with_plasma(s) ==
    LET p == plasma(s)
    IN  SetAttrs(s,
            [_plasma |-> p,
             major_radius |-> p.major_radius,
             minor_radius |-> p.minor_radius,
             elongation |-> p.elongation,
             triangularity |-> p.triangularity])

make_plasma ==
    KernelStep("make_plasma",
               <<Construct("PlasmaFromPoints", "_plasma")>>,
               with_plasma(self),
               <<"_plasma">>)

\* ------------------------------------------------ make_outboard_blanket

\* the local center_column_cutter
center_column_cutter(s) ==
    CenterColumnShieldCylinder(s,
        [height |-> (s._inboard_firstwall_end_height * 5) \div 2,
         inner_radius |-> 0,
         outer_radius |-> s._inboard_firstwall_end_radius,
         rotation_angle |-> s.rotation_angle])

outboard_blanket(s) ==
    BlanketFP(s,
        [plasma |-> "_plasma",
         thickness |-> Metres(100),
         offset_from_plasma |->
             <<s.inner_plasma_gap_radial_thickness,
               s.plasma_gap_vertical_thickness,
               s.outer_plasma_gap_radial_thickness,
               s.plasma_gap_vertical_thickness,
               s.inner_plasma_gap_radial_thickness>>,
         start_angle |-> Deg(-179),
         stop_angle |-> Deg(179),
         rotation_angle |-> s.rotation_angle,
         cut |-> center_column_cutter(s)])

\* the blanket appended as soon as it is constructed
outboard_blanket_appended_at_construction == <<"_blanket">>

\* what make_outboard_blanket appends to the list: nothing
outboard_blanket_appended == <<>>

make_outboard_blanket ==
    KernelStep("make_outboard_blanket",
               <<Construct("CenterColumnShieldCylinder", "center_column_cutter"),
                 Construct("BlanketFP", "_blanket"),
                 <<"cut", "_blanket", "center_column_cutter">> >>,
               SetAttrs(self, [_blanket |-> outboard_blanket(self)]),
               outboard_blanket_appended)

\* -------------------------------------------------------- make_divertor

divertor(s) ==
    CenterColumnShieldCylinder(s,
        [height |-> (s._center_column_shield_end_height * 5) \div 2,
         inner_radius |-> s._divertor_start_radius,
         outer_radius |-> s._divertor_end_radius,
         rotation_angle |-> s.rotation_angle,
         stp_filename |-> "divertor.stp",
         stl_filename |-> "divertor.stl",
         name |-> "divertor",
         material_tag |-> "divertor_mat",
         intersect |-> "_blanket"])

\* make_divertor cutting its cylinder out of the blanket before the
\* intersection reads the blanket
make_divertor_cut_first ==
    LET cylinder == Interval(self._divertor_start_radius, self._divertor_end_radius)
        cut_blanket == SetAttrs(self, [_blanket |->
            SetAttrs(self._blanket, [solid |-> Cut(self._blanket.solid, cylinder)])])
    IN  KernelStep("make_divertor",
                   <<Construct("CenterColumnShieldCylinder", "_divertor"),
                     <<"cut", "_blanket", "_divertor">>,
                     <<"intersect", "_divertor", "_blanket">> >>,
                   SetAttrs(cut_blanket, [_divertor |-> divertor(cut_blanket)]),
                   <<"_divertor">>)

make_divertor ==
    KernelStep("make_divertor",
               <<Construct("CenterColumnShieldCylinder", "_divertor"),
                 <<"intersect", "_divertor", "_blanket">> >>,
               SetAttrs(self, [_divertor |-> divertor(self)]),
               <<"_divertor">>)

\* -------------------------------------------------- make_component_cuts

\* line 274: the object once the divertor is cut out of the blanket
component_cuts(s) ==
    SetAttrs(s, [_blanket |->
        SetAttrs(s._blanket, [solid |-> Cut(s._blanket.solid, s._divertor.solid)])])

\* make_component_cuts appending the blanket without cutting it
make_component_cuts_without_cut ==
    KernelStep("make_component_cuts",
               << <<"cut", "_blanket", "_divertor">> >>,
               self,
               <<"_blanket">>)

make_component_cuts ==
    KernelStep("make_component_cuts",
               << <<"cut", "_blanket", "_divertor">> >>,
               component_cuts(self),
               <<"_blanket">>)

\* ------------------------------------------------------------- line 97

assign ==
    /\ pc = "assign"
    /\ self' = SetAttrs(self, [shapes_and_components |-> shapes_or_components])
    /\ pc' = Following("assign")
    /\ UNCHANGED <<shapes_or_components, raised, warnings_log, kernel_log>>

Next ==
    \/ rotation_angle_check
    \/ make_radial_build
    \/ make_vertical_build
    \/ make_inboard_tf_coils
    \/ make_center_column_shield
    \/ make_inboard_firstwall
    \/ make_plasma
    \/ make_outboard_blanket
    \/ make_divertor
    \/ make_component_cuts
    \/ assign

Spec == Init /\ [][Next]_vars

\* =============================================================== claims

Has(name) == name \in DOMAIN self

RadialDone == Has("_outboard_blanket_end_radius")

VerticalDone == Has("_inboard_firstwall_end_height")

ApexX == self.plasma_high_point[1]

ApexOutOfRange ==
    \/ ApexX < self._plasma_start_radius
    \/ ApexX > self._plasma_end_radius

OutOfRangeErrors == {TooSmall, TooLarge}

\* C1: when the apex radius is below the computed plasma start radius or
\* above the computed plasma end radius, the constructor gets no further
\* than make_vertical_build, which raises the out-of-range error; no kernel
\* construction and no boolean operation has been performed and nothing has
\* been appended.
C1_OutOfRangeFailsBeforeKernel ==
    (RadialDone /\ ApexOutOfRange) =>
        /\ pc \in {"make_vertical_build", "raised"}
        /\ pc = "raised" =>
              raised = (IF ApexX < self._plasma_start_radius
                        THEN TooSmall ELSE TooLarge)
        /\ pc = "make_vertical_build" => raised = NoError
        /\ kernel_log = <<>>
        /\ shapes_or_components = <<>>

C1_Witness ==
    /\ pc = "raised"
    /\ raised = TooLarge
    /\ ApexX > self._plasma_end_radius
    /\ kernel_log = <<>>

\* the parameter set of the end-to-end scenario, apex left open
ScenarioThicknesses ==
    /\ self.inner_bore_radial_thickness = Metres(1)
    /\ self.inboard_tf_leg_radial_thickness = Metres(1)
    /\ self.center_column_shield_radial_thickness_mid = Metres(1)
    /\ self.center_column_shield_radial_thickness_upper = Metres(1)
    /\ self.inboard_firstwall_radial_thickness = Tenths(1)
    /\ self.divertor_radial_thickness = Metres(2)
    /\ self.inner_plasma_gap_radial_thickness = Tenths(5)
    /\ self.plasma_radial_thickness = Metres(1)
    /\ self.outer_plasma_gap_radial_thickness = Tenths(5)
    /\ self.center_column_arc_vertical_thickness = Metres(2)
    /\ self.plasma_gap_vertical_thickness = Tenths(3)
    /\ self.rotation_angle = Deg(180)

\* C7: in the end-to-end scenario the radial pass gives a plasma start
\* radius of 3.6 and a plasma end radius of 4.6, and with the apex at
\* (2.5, 3) the constructor ends in the too-small error with no kernel call.
C7_ScenarioRejected ==
    (ScenarioThicknesses /\ self.plasma_high_point = <<Tenths(25), Metres(3)>>) =>
        /\ RadialDone =>
              /\ self._plasma_start_radius = Tenths(36)
              /\ self._plasma_end_radius = Tenths(46)
        /\ VerticalDone =>
              /\ pc = "raised"
              /\ raised = TooSmall
        /\ kernel_log = <<>>
        /\ shapes_or_components = <<>>

C7_Witness ==
    /\ ScenarioThicknesses
    /\ self.plasma_high_point = <<Tenths(25), Metres(3)>>
    /\ pc = "raised"
    /\ raised = TooSmall
    /\ self._plasma_start_radius = Tenths(36)

\* the start radii in the pipeline order of the radial pass
StartRadii ==
    <<self._inner_bore_start_radius,
      self._inboard_tf_coils_start_radius,
      self._center_column_shield_start_radius,
      self._inboard_firstwall_start_radius,
      self._divertor_start_radius,
      self._inner_plasma_gap_start_radius,
      self._plasma_start_radius,
      self._outer_plasma_gap_start_radius,
      self._outboard_blanket_start_radius>>

Contiguous ==
    /\ self._inner_bore_end_radius = self._inboard_tf_coils_start_radius
    /\ self._inboard_tf_coils_end_radius = self._center_column_shield_start_radius
    /\ self._center_column_shield_end_radius_upper = self._inboard_firstwall_start_radius
    /\ self._inboard_firstwall_end_radius = self._divertor_start_radius
    /\ self._inner_plasma_gap_end_radius = self._plasma_start_radius
    /\ self._plasma_end_radius = self._outer_plasma_gap_start_radius
    /\ self._outer_plasma_gap_end_radius = self._outboard_blanket_start_radius

\* C6 as stated: after the radial pass the start radii are non-decreasing
\* over the whole pipeline order and the contiguous pairs meet exactly.
C6_Original ==
    RadialDone =>
        /\ \A i \in 1..(Len(StartRadii) - 1) : StartRadii[i] <= StartRadii[i + 1]
        /\ Contiguous

\* C6 amended: the contiguous pairs meet exactly; the start radii are
\* non-decreasing from the inner bore to the divertor and from the inner
\* plasma gap to the blanket; the inner plasma gap, which restarts from the
\* shield's mid end, starts at or after the shield start, and starts at or
\* after the divertor exactly when the shield's upper thickness does not
\* exceed its mid thickness.
C6_RadialZonesChain ==
    RadialDone =>
        /\ \A i \in 1..4 : StartRadii[i] <= StartRadii[i + 1]
        /\ \A i \in 6..8 : StartRadii[i] <= StartRadii[i + 1]
        /\ StartRadii[3] <= StartRadii[6]
        /\ (StartRadii[5] <= StartRadii[6]) <=>
              (self.center_column_shield_radial_thickness_upper
                   <= self.center_column_shield_radial_thickness_mid)
        /\ Contiguous

C6_Witness ==
    /\ RadialDone
    /\ self.center_column_shield_radial_thickness_upper
           > self.center_column_shield_radial_thickness_mid
    /\ self._divertor_start_radius > self._inner_plasma_gap_start_radius
    /\ self.inboard_firstwall_radial_thickness > 0

ScalarNames == {"major_radius", "minor_radius", "elongation", "triangularity"}

ParameterNames ==
    {"inner_bore_radial_thickness", "inboard_tf_leg_radial_thickness",
     "center_column_shield_radial_thickness_mid",
     "center_column_shield_radial_thickness_upper",
     "inboard_firstwall_radial_thickness", "divertor_radial_thickness",
     "inner_plasma_gap_radial_thickness", "plasma_radial_thickness",
     "outer_plasma_gap_radial_thickness", "plasma_high_point",
     "plasma_gap_vertical_thickness", "center_column_arc_vertical_thickness",
     "rotation_angle"}

Restrict(f, S) == [x \in S |-> f[x]]

\* the attribute names the two zone passes set
ZoneNames ==
    DOMAIN vertical_build(radial_build(InitSelf(Restrict(self, ParameterNames))))
        \ (ParameterNames \cup ScalarNames \cup {"shapes_and_components"})

\* the object after both zone passes of a run on parameter set p whose
\* plasma scalars hold v when the passes run
ZonePasses(p, v) ==
    vertical_build(radial_build(SetAttrs(InitSelf(p), [n \in ScalarNames |-> v])))

\* C10: with plasma start radius <= apex radius <= plasma end radius (either
\* bound included, a zero plasma thickness included) make_vertical_build
\* raises nothing and the constructor stands at the first kernel call; the
\* four plasma scalars are None in every state before the plasma is built,
\* and the zone values do not depend on what the scalars hold.
C10_InclusiveGate ==
    /\ (VerticalDone /\ ~ApexOutOfRange) =>
          /\ raised \notin OutOfRangeErrors
          /\ kernel_log = <<>> =>
                /\ pc = "make_inboard_tf_coils"
                /\ raised = NoError
    /\ ~Has("_plasma") => \A n \in ScalarNames : self[n] = None
    /\ VerticalDone =>
          Restrict(self, ZoneNames)
              = Restrict(ZonePasses(Restrict(self, ParameterNames), <<"set">>),
                         ZoneNames)

C10_Witness ==
    /\ pc = "make_inboard_tf_coils"
    /\ self.plasma_radial_thickness = 0
    /\ ApexX = self._plasma_start_radius
    /\ ApexX = self._plasma_end_radius
    /\ raised = NoError

Range(q) == {q[i] : i \in 1..Len(q)}

IsPrefix(a, b) == Len(a) <= Len(b) /\ a = SubSeq(b, 1, Len(a))

IsConstruct(e) == e[1] = "construct"

\* the names of the shapes whose construction the kernel was asked for
Constructed == [i \in 1..Len(SelectSeq(kernel_log, IsConstruct)) |->
                   SelectSeq(kernel_log, IsConstruct)[i][3]]

ConstructionOrder ==
    <<"_inboard_tf_coils", "_center_column_shield", "_inboard_firstwall",
      "_plasma", "center_column_cutter", "_blanket", "_divertor">>

\* C2: the kernel constructions happen in the order TF coils, shield,
\* firstwall, plasma, cutting cylinder, blanket, divertor; none happens
\* before both zone passes have run and validation has passed; the firstwall
\* is constructed only when the shield exists, the blanket only when the
\* plasma exists and the cutter has been constructed, the divertor only
\* when the blanket exists.
C2_ConstructionOrder ==
    /\ IsPrefix(Constructed, ConstructionOrder)
    /\ kernel_log # <<>> =>
          /\ RadialDone
          /\ VerticalDone
          /\ raised \notin OutOfRangeErrors
    /\ Len(Constructed) >= 3 => Has("_center_column_shield")
    /\ Len(Constructed) >= 6 => Has("_plasma")
    /\ Len(Constructed) >= 7 => Has("_blanket")

C2_Witness ==
    /\ pc = "done"
    /\ Constructed = ConstructionOrder

AssemblyOrder ==
    <<"_inboard_tf_coils", "_center_column_shield", "_inboard_firstwall",
      "_plasma", "_divertor", "_blanket">>

CutByDivertor == <<"cut", "_blanket", "_divertor">>

IntersectWithBlanket == <<"intersect", "_divertor", "_blanket">>

\* the number of list entries when statement p is about to run
AppendedBefore(p) ==
    CASE p = "make_center_column_shield" -> 1
      [] p = "make_inboard_firstwall" -> 2
      [] p = "make_plasma" -> 3
      [] p = "make_outboard_blanket" -> 4
      [] p = "make_divertor" -> 4
      [] p = "make_component_cuts" -> 5
      [] p \in {"assign", "done"} -> 6
      [] OTHER -> 0

C3_ListState ==
    /\ IsPrefix(shapes_or_components, AssemblyOrder)
    /\ pc # "raised" => Len(shapes_or_components) = AppendedBefore(pc)
    /\ "_blanket" \in Range(shapes_or_components) => CutByDivertor \in Range(kernel_log)
    /\ "center_column_cutter" \notin Range(shapes_or_components)
    /\ pc = "done" =>
          /\ shapes_or_components = AssemblyOrder
          /\ self.shapes_and_components = AssemblyOrder

\* C3: the components list only grows, by one entry per build step other
\* than the blanket step; it is always a prefix of TF coils, shield,
\* firstwall, plasma, divertor, blanket; the blanket joins it only once the
\* divertor has been cut out of it and the cutting cylinder never does; a
\* completed constructor leaves exactly that six-entry assembly.
C3_AppendOnlyAssembly ==
    /\ []C3_ListState
    /\ [][/\ IsPrefix(shapes_or_components, shapes_or_components')
          /\ Len(shapes_or_components') <= Len(shapes_or_components) + 1]_vars

C3_Witness ==
    /\ pc = "done"
    /\ self.plasma_high_point = <<Tenths(40), Metres(3)>>
    /\ ScenarioThicknesses
    /\ self.shapes_and_components = AssemblyOrder

\* the blanket as make_outboard_blanket leaves it: cut by the inboard
\* cutting cylinder only
PreCutBlanket == outboard_blanket(self).solid

DivertorCylinder == Interval(self._divertor_start_radius, self._divertor_end_radius)

\* the position of entry e in the kernel log, 0 when absent
LogIndex(e) ==
    IF e \in Range(kernel_log)
    THEN CHOOSE i \in 1..Len(kernel_log) : kernel_log[i] = e
    ELSE 0

\* C4: the divertor is its cylinder intersected with the blanket as cut by
\* the cutting cylinder only; until make_component_cuts runs the blanket is
\* still that solid; the cut of the blanket by the divertor is performed
\* only after the intersection, once the divertor exists.
C4_DivertorReadsPreCutBlanket ==
    /\ Has("_divertor") =>
          self._divertor.solid = Intersect(DivertorCylinder, PreCutBlanket)
    /\ (Has("_blanket") /\ pc \in {"make_divertor", "make_component_cuts"}) =>
          self._blanket.solid = PreCutBlanket
    /\ (Has("_blanket") /\ ~Has("_divertor")) => CutByDivertor \notin Range(kernel_log)
    /\ CutByDivertor \in Range(kernel_log) =>
          /\ Has("_divertor")
          /\ 0 < LogIndex(IntersectWithBlanket)
          /\ LogIndex(IntersectWithBlanket) < LogIndex(CutByDivertor)

C4_Witness ==
    /\ pc = "done"
    /\ self._divertor.solid # {}
    /\ self._blanket.solid # PreCutBlanket
    /\ LogIndex(IntersectWithBlanket) < LogIndex(CutByDivertor)

AfterCuts == pc \in {"assign", "done"}

\* C5 as stated: the divertor is a strict subset of the pre-cut blanket, and
\* after make_component_cuts blanket and divertor share no point.
C5_Original ==
    /\ Has("_divertor") =>
          /\ Points(self._divertor.solid) \subseteq Points(PreCutBlanket)
          /\ Points(self._divertor.solid) # Points(PreCutBlanket)
    /\ AfterCuts =>
          Points(self._blanket.solid) \cap Points(self._divertor.solid) = {}

\* C5 amended: the divertor is a subset of the pre-cut blanket, a strict one
\* whenever the divertor's end radius is below the blanket's end radius, and
\* after make_component_cuts blanket and divertor share no point.
C5_DivertorWithinBlanket ==
    /\ Has("_divertor") =>
          /\ Points(self._divertor.solid) \subseteq Points(PreCutBlanket)
          /\ self._divertor_end_radius < self._outboard_blanket_end_radius =>
                Points(self._divertor.solid) # Points(PreCutBlanket)
    /\ AfterCuts =>
          Points(self._blanket.solid) \cap Points(self._divertor.solid) = {}

C5_Witness ==
    /\ pc = "done"
    /\ self._divertor.solid # {}
    /\ self._blanket.solid # {}
    /\ Points(self._divertor.solid) # Points(PreCutBlanket)
    /\ Points(self._blanket.solid) \cap Points(self._divertor.solid) = {}

\* C8: a kernel failure leaves the constructor at once: nothing runs after
\* it, and shapes_and_components, empty until line 97, is assigned only in
\* a run in which every kernel call, the final cut included, succeeded.
C8_FailFast ==
    /\ raised = KernelError =>
          /\ pc = "raised"
          /\ ~ENABLED Next
          /\ self.shapes_and_components = <<>>
    /\ self.shapes_and_components # <<>> =>
          /\ pc = "done"
          /\ raised = NoError
          /\ CutByDivertor \in Range(kernel_log)

C8_Witness ==
    /\ raised = KernelError
    /\ pc = "raised"
    /\ Len(shapes_or_components) = 5
    /\ kernel_log[Len(kernel_log)] = CutByDivertor
    /\ self.shapes_and_components = <<>>

\* the outcome of validation in a run on parameter set p
ValidationOutcome(p) == high_point_check(ZonePasses(p, None))

\* parameter set p with rotation angle r
WithRotation(p, r) == SetAttrs(p, [rotation_angle |-> r])

C9_State ==
    /\ pc = "rotation_angle_check" => warnings_log = <<>>
    /\ pc # "rotation_angle_check" =>
          warnings_log = (IF self.rotation_angle = Deg(360)
                          THEN <<FullSweepWarning>> ELSE <<>>)
    /\ VerticalDone =>
          \A r \in RotationAngles :
              LET twin == WithRotation(Restrict(self, ParameterNames), r)
              IN  /\ Restrict(self, ZoneNames)
                         = Restrict(ZonePasses(twin, None), ZoneNames)
                  /\ raised \in OutOfRangeErrors \cup {NoError} =>
                         raised = ValidationOutcome(twin)
                  /\ raised = KernelError => ValidationOutcome(twin) = NoError

\* C9: the warning is emitted exactly when rotation_angle is 360;
\* rotation_angle_check changes nothing else and always hands over to
\* make_radial_build; the zone values and the validation outcome of a run
\* are those of the run on the same parameters with any other rotation
\* angle.
C9_RotationAdvisory ==
    /\ []C9_State
    /\ [][pc = "rotation_angle_check" =>
            /\ pc' = "make_radial_build"
            /\ UNCHANGED <<self, shapes_or_components, raised, kernel_log>>]_vars

C9_Witness ==
    /\ self.rotation_angle = Deg(360)
    /\ warnings_log = <<FullSweepWarning>>
    /\ VerticalDone
    /\ pc = "make_inboard_tf_coils"
    /\ Restrict(self, ZoneNames)
           = Restrict(ZonePasses(WithRotation(Restrict(self, ParameterNames),
                                              Deg(360) - 1), None), ZoneNames)
====
